---- MODULE Spec2Model ----
(***************************************************************************)
(* televoica: a speech-to-text engine with pluggable providers, its        *)
(* configuration layer and the Telegram bot built on it.                   *)
(*                                                                         *)
(*   Spec        the engine used as a library, one call at a time          *)
(*   SpecAnyArg  the same, set_provider also given None                    *)
(*   SpecConc    the engine shared by two threads                          *)
(*   SpecBot     the bot's voice/audio handlers on the asyncio event loop  *)
(*   SpecOverlap the same handlers, two invocations in flight              *)
(*   SpecCommands  the bot's /start, /help and /info handlers              *)
(*   SpecConfig  Settings, load_config and the bot entry point             *)
(***************************************************************************)
EXTENDS Integers, Sequences, FiniteSets, TLC

\* Python's None.
NULL == "NULL"

(***************************************************************************)
(* Bounds of the model.                                                    *)
(***************************************************************************)
\* transcription calls a library caller makes
MaxCalls == 3
\* set_provider calls a library caller makes
MaxSets == 2
\* messages the host dispatches to the bot's handlers
MaxMsgs == 2
\* set_provider calls made while the threads of a host program are in a call
MaxConcSets == 1

(***************************************************************************)
(* Texts are sequences of one-character strings.                           *)
(***************************************************************************)
RECURSIVE lstrip(_)
lstrip(s) ==
    IF s # <<>> /\ Head(s) = " " THEN lstrip(Tail(s)) ELSE s

RECURSIVE rstrip(_)
rstrip(s) ==
    IF s # <<>> /\ s[Len(s)] = " " THEN rstrip(SubSeq(s, 1, Len(s) - 1)) ELSE s

\* (mutant) a strip that leaves the trailing whitespace
strip_leading(s) == lstrip(s)

\* str.strip()
strip(s) == rstrip(lstrip(s))

\* sep.join(xs)
RECURSIVE join(_, _)
join(sep, xs) ==
    IF xs = <<>> THEN <<>>
    ELSE IF Len(xs) = 1 THEN xs[1]
    ELSE xs[1] \o sep \o join(sep, Tail(xs))

(***************************************************************************)
(* Files.  A path is a directory and a name; a name is a sequence of       *)
(* pieces, the dot of a suffix being a piece of its own.                   *)
(***************************************************************************)
MkPath(d, name) == [dir |-> d, name |-> name]
NoPath == MkPath("", <<>>)

\* The audio files a library caller names: one exists, one does not.
ExistingFile == MkPath("user", <<"rec", ".", "wav">>)
MissingFile == MkPath("user", <<"nonexistent", ".", "mp3">>)
UserFiles == {ExistingFile, MissingFile}

\* transcribe_file takes Union[str, Path]
PathArgs == [type : {"str", "Path"}, path : UserFiles]

\* pathlib.Path(audio_file): a str and a Path name the same file
Path(arg) == arg.path

\* format hints given to transcribe_bytes
Formats == {"ogg", "mp3", "wav", "xyz"}

(***************************************************************************)
(* Providers.  W0 is the WhisperProvider() the engine builds for itself.   *)
(***************************************************************************)
DefaultProvider == "W0"
CallerProviders == {"W1", "G1"}
Providers == CallerProviders \cup {DefaultProvider}
ProviderClass(p) == IF p = "G1" THEN "GoogleCloudSTTProvider" ELSE "WhisperProvider"

\* what the whisper backend's result["text"] may hold
RawTexts == {<<>>, <<" ">>, <<"a">>, <<" ", "a", " ">>}
\* what the Google response's results may hold (top alternative of each)
Responses == {<<>>, << <<"a">> >>, << <<"a">>, <<"b">> >>, << <<" ", "a">>, <<" ">> >>}

\* outcomes of acquiring the backend resource
AcquireFailures == {"ImportError", "BackendLoadError"}
AcquireOutcomes == {"ok"} \cup AcquireFailures

\* A returned text, or the exception raised in its place.
Ok(text) == [err |-> "none", text |-> text]
Raise(e) == [err |-> e, text |-> <<>>]
Pending == [err |-> "pending", text |-> <<>>]

VARIABLES
    \* the engine and its providers
    provider,     \* SpeechToTextEngine.provider
    lastOp,       \* "init" or "set": what assigned provider last
    lastArg,      \* the provider argument of that constructor or set_provider
    handle,       \* each provider's _model / _client
    acquired,     \* per provider, backend resources acquired so far
    callsOn,      \* per provider, transcription calls dispatched to it
    callsDone,    \* per provider, transcription calls that returned or raised
    fs,           \* the files that exist
    ntmp,         \* temporary files named so far
    req,          \* per caller, the transcription call in progress
    \* a library caller
    ncalls,       \* transcription calls made
    nsets,        \* set_provider calls made
    \* the bot
    allowed_users,      \* TelegramSTTBot.allowed_users
    max_file_size_mb,   \* settings.telegram.max_file_size_mb
    hs,                 \* per handler invocation, the message and its progress
    nmsgs,              \* messages dispatched so far
    \* configuration and the bot entry point
    env,          \* os.environ
    cfile,        \* the --config file: whether given, whether it exists, its content
    args,         \* the command line of "televoica bot"
    cpc,          \* how far the entry point has come
    settings,     \* the Settings object
    cerr,         \* the exception or exit that ended the entry point
    given,        \* the arguments of a direct Settings(...) construction
    built,        \* the provider bot_command built for the engine
    tbot          \* the TelegramSTTBot object

engineVars == <<provider, lastOp, lastArg, handle, acquired, callsOn, callsDone,
                fs, ntmp, req>>
libVars == <<ncalls, nsets>>
botVars == <<allowed_users, max_file_size_mb, hs, nmsgs>>
cfgVars == <<env, cfile, args, cpc, settings, cerr, given, built, tbot>>
\* what a step inside the engine leaves alone
others == <<libVars, botVars, cfgVars>>
vars == <<engineVars, libVars, botVars, cfgVars>>

\* library callers (threads of a host program) and the bot's handler invocations
Threads == {"t1", "t2"}
Handlers == {"h1", "h2"}
Callers == Threads \cup Handlers

IdleReq ==
    [pc |-> "idle", op |-> "none", path |-> NoPath, fmt |-> "", prov |-> NULL,
     expect |-> NULL, tmp |-> NoPath, made |-> {},
     acq |-> 0, enc |-> "", sent |-> 0, raw |-> <<>>, response |-> <<>>,
     failure |-> "none", pret |-> Pending, result |-> Pending]

Upd(t, r) == req' = [req EXCEPT ![t] = r]

(***************************************************************************)
(* SpeechToTextEngine                                                      *)
(***************************************************************************)
\* (mutant) __init__ without the default: self.provider = provider
SpeechToTextEngine_init_nodefault(arg) == arg

\* __init__: self.provider = provider or WhisperProvider()
SpeechToTextEngine_init(arg) == IF arg = NULL THEN DefaultProvider ELSE arg

\* (mutant) transcribe_file without the existence check
transcribe_file_unchecked(t, arg) ==
    /\ req[t].pc = "idle"
    /\ Upd(t, [IdleReq EXCEPT !.pc = "dispatch", !.op = "file", !.path = Path(arg)])
    /\ UNCHANGED <<provider, lastOp, lastArg, handle, acquired, callsOn,
                   callsDone, fs, ntmp>>

\* transcribe_file up to the existence check
transcribe_file(t, arg) ==
    /\ req[t].pc = "idle"
    /\ LET audio_path == Path(arg) IN
       IF audio_path \notin fs
       THEN Upd(t, [IdleReq EXCEPT !.pc = "done", !.op = "file",
                                   !.path = audio_path,
                                   !.result = Raise("FileNotFoundError")])
       ELSE Upd(t, [IdleReq EXCEPT !.pc = "dispatch", !.op = "file",
                                   !.path = audio_path])
    /\ UNCHANGED <<provider, lastOp, lastArg, handle, acquired, callsOn,
                   callsDone, fs, ntmp>>

\* transcribe_bytes up to the call of the provider
transcribe_bytes(t, format) ==
    /\ req[t].pc = "idle"
    /\ Upd(t, [IdleReq EXCEPT !.pc = "dispatch", !.op = "bytes", !.fmt = format])
    /\ UNCHANGED <<provider, lastOp, lastArg, handle, acquired, callsOn,
                   callsDone, fs, ntmp>>

\* the provider method a call enters
Entry(p, op) ==
    IF ProviderClass(p) = "WhisperProvider"
    THEN (IF op = "file" THEN "w_load" ELSE "w_stage")
    ELSE (IF op = "file" THEN "g_open" ELSE "g_load")

\* self.provider.transcribe(audio_path) / self.provider.transcribe_bytes(...):
\* the engine reads its provider and enters the provider's method
Dispatch(t) ==
    /\ req[t].pc = "dispatch"
    /\ IF provider = NULL
       THEN /\ Upd(t, [req[t] EXCEPT !.pc = "ret",
                                     !.pret = Raise("AttributeError")])
            /\ UNCHANGED callsOn
       ELSE /\ Upd(t, [req[t] EXCEPT !.pc = Entry(provider, req[t].op),
                                     !.prov = provider,
                                     !.expect = IF lastOp = "set" THEN lastArg
                                                ELSE SpeechToTextEngine_init(lastArg)])
            /\ callsOn' = [callsOn EXCEPT ![provider] = @ + 1]
    /\ UNCHANGED <<provider, lastOp, lastArg, handle, acquired, callsDone, fs, ntmp, others>>

\* return self.provider.transcribe(...): the provider's text or exception is
\* the engine's
EngineReturn(t) ==
    /\ req[t].pc = "ret"
    /\ Upd(t, [req[t] EXCEPT !.pc = "done", !.result = req[t].pret])
    /\ callsDone' = IF req[t].prov = NULL THEN callsDone
                    ELSE [callsDone EXCEPT ![req[t].prov] = @ + 1]
    /\ UNCHANGED <<provider, lastOp, lastArg, handle, acquired, callsOn, fs, ntmp, others>>

\* (mutant) set_provider that also moves the requests in flight to the new
\* provider
set_provider_interrupting(arg) ==
    /\ provider' = arg
    /\ lastOp' = "set"
    /\ lastArg' = arg
    /\ req' = [t \in Callers |->
                 IF req[t].prov # NULL /\ req[t].pc \notin {"idle", "done"}
                 THEN [req[t] EXCEPT !.prov = arg] ELSE req[t]]
    /\ UNCHANGED <<handle, acquired, callsOn, callsDone, fs, ntmp>>

\* (mutant) set_provider that forgets the assignment
set_provider_ignored(arg) ==
    /\ lastOp' = "set"
    /\ lastArg' = arg
    /\ UNCHANGED <<provider, handle, acquired, callsOn, callsDone, fs, ntmp, req>>

\* (mutant) set_provider that loads the new provider's resource at once
set_provider_loading(arg) ==
    /\ provider' = arg
    /\ lastOp' = "set"
    /\ lastArg' = arg
    /\ handle' = [handle EXCEPT ![arg] = "model"]
    /\ acquired' = [acquired EXCEPT ![arg] = @ + 1]
    /\ UNCHANGED <<callsOn, callsDone, fs, ntmp, req>>

\* set_provider: self.provider = provider
set_provider(arg) ==
    /\ provider' = arg
    /\ lastOp' = "set"
    /\ lastArg' = arg
    /\ UNCHANGED <<handle, acquired, callsOn, callsDone, fs, ntmp, req>>

(***************************************************************************)
(* WhisperProvider                                                         *)
(***************************************************************************)
\* where a whisper transcription goes when transcribe returns or raises:
\* transcribe_bytes runs it inside try/finally
AfterWhisper(r) == IF r.tmp # NoPath THEN "w_finally" ELSE "ret"

\* transcribe_bytes: the bytes go to NamedTemporaryFile(suffix=f".{format}",
\* delete=False); the write may fail (written = FALSE) and the with block then
\* only closes the file
WhisperProvider_transcribe_bytes(t, written) ==
    /\ req[t].pc = "w_stage"
    /\ LET temp_path == MkPath("tmp", <<"tmp" \o ToString(ntmp)>> \o <<".", req[t].fmt>>) IN
       /\ fs' = fs \cup {temp_path}
       /\ ntmp' = ntmp + 1
       /\ IF written
          THEN Upd(t, [req[t] EXCEPT !.pc = "w_load", !.path = temp_path,
                                     !.tmp = temp_path, !.made = @ \cup {temp_path}])
          ELSE Upd(t, [req[t] EXCEPT !.pc = "ret", !.made = @ \cup {temp_path},
                                     !.failure = "OSError",
                                     !.pret = Raise("OSError")])
    /\ UNCHANGED <<provider, lastOp, lastArg, handle, acquired, callsOn, callsDone, others>>

\* (mutant) _load_model without the guard: the model is loaded on every call
WhisperProvider_load_model_unguarded(t) ==
    /\ req[t].pc = "w_load"
    /\ Upd(t, [req[t] EXCEPT !.pc = "w_acquire"])
    /\ UNCHANGED <<provider, lastOp, lastArg, handle, acquired, callsOn,
                   callsDone, fs, ntmp, others>>

\* _load_model: if self._model is None
WhisperProvider_load_model(t) ==
    /\ req[t].pc = "w_load"
    /\ Upd(t, [req[t] EXCEPT !.pc = IF handle[req[t].prov] = NULL
                                    THEN "w_acquire" ELSE "w_run"])
    /\ UNCHANGED <<provider, lastOp, lastArg, handle, acquired, callsOn,
                   callsDone, fs, ntmp, others>>

\* (mutant) _load_model leaving a broken model behind when loading fails
WhisperProvider_load_model_acquire_poisoning(t, outcome) ==
    /\ req[t].pc = "w_acquire"
    /\ IF outcome = "ok"
       THEN /\ handle' = [handle EXCEPT ![req[t].prov] = "model"]
            /\ acquired' = [acquired EXCEPT ![req[t].prov] = @ + 1]
            /\ Upd(t, [req[t] EXCEPT !.pc = "w_run", !.acq = @ + 1])
       ELSE /\ Upd(t, [req[t] EXCEPT !.pc = AfterWhisper(req[t]), !.acq = @ + 1,
                                     !.failure = outcome,
                                     !.pret = Raise(outcome)])
            /\ handle' = [handle EXCEPT ![req[t].prov] = "broken"]
            /\ UNCHANGED acquired
    /\ UNCHANGED <<provider, lastOp, lastArg, callsOn, callsDone, fs, ntmp, others>>

\* _load_model: import whisper; self._model = whisper.load_model(...)
WhisperProvider_load_model_acquire(t, outcome) ==
    /\ req[t].pc = "w_acquire"
    /\ IF outcome = "ok"
       THEN /\ handle' = [handle EXCEPT ![req[t].prov] = "model"]
            /\ acquired' = [acquired EXCEPT ![req[t].prov] = @ + 1]
            /\ Upd(t, [req[t] EXCEPT !.pc = "w_run", !.acq = @ + 1])
       ELSE /\ Upd(t, [req[t] EXCEPT !.pc = AfterWhisper(req[t]), !.acq = @ + 1,
                                     !.failure = outcome,
                                     !.pret = Raise(outcome)])
            /\ UNCHANGED <<handle, acquired>>
    /\ UNCHANGED <<provider, lastOp, lastArg, callsOn, callsDone, fs, ntmp, others>>

\* (mutant) transcribe answering a backend failure with an empty text
WhisperProvider_transcribe_swallowing(t, ok, raw) ==
    /\ req[t].pc = "w_run"
    /\ ok => req[t].path \in fs
    /\ Upd(t, [req[t] EXCEPT !.pc = AfterWhisper(req[t]),
                             !.raw = raw,
                             !.failure = IF ok THEN "none" ELSE "TranscribeError",
                             !.pret = IF ok THEN Ok(strip(raw)) ELSE Ok(<<>>)])
    /\ UNCHANGED <<provider, lastOp, lastArg, handle, acquired, callsOn,
                   callsDone, fs, ntmp, others>>

\* transcribe: result = self._model.transcribe(str(audio_file), ...);
\* result["text"].strip(), or the backend's exception re-raised
WhisperProvider_transcribe(t, ok, raw) ==
    /\ req[t].pc = "w_run"
    /\ ok => req[t].path \in fs
    /\ Upd(t, [req[t] EXCEPT !.pc = AfterWhisper(req[t]),
                             !.raw = raw,
                             !.failure = IF ok THEN "none" ELSE "TranscribeError",
                             !.pret = IF ok THEN Ok(strip(raw))
                                      ELSE Raise("TranscribeError")])
    /\ UNCHANGED <<provider, lastOp, lastArg, handle, acquired, callsOn,
                   callsDone, fs, ntmp, others>>

\* transcribe_bytes: finally: temp_path.unlink(missing_ok=True)
WhisperProvider_transcribe_bytes_finally(t) ==
    /\ req[t].pc = "w_finally"
    /\ fs' = fs \ {req[t].tmp}
    /\ Upd(t, [req[t] EXCEPT !.pc = "ret"])
    /\ UNCHANGED <<provider, lastOp, lastArg, handle, acquired, callsOn,
                   callsDone, ntmp, others>>

(***************************************************************************)
(* GoogleCloudSTTProvider                                                  *)
(***************************************************************************)
\* (mutant) transcribe passing the file's extension on as the format
GoogleCloudSTTProvider_transcribe_hinting(t) ==
    /\ req[t].pc = "g_open"
    /\ IF req[t].path \in fs
       THEN Upd(t, [req[t] EXCEPT !.pc = "g_load",
                                  !.fmt = req[t].path.name[Len(req[t].path.name)]])
       ELSE Upd(t, [req[t] EXCEPT !.pc = "ret", !.failure = "FileNotFoundError",
                                  !.pret = Raise("FileNotFoundError")])
    /\ UNCHANGED <<provider, lastOp, lastArg, handle, acquired, callsOn,
                   callsDone, fs, ntmp, others>>

\* transcribe: reads the file and calls self.transcribe_bytes(audio_bytes),
\* the format left to its default
GoogleCloudSTTProvider_transcribe(t) ==
    /\ req[t].pc = "g_open"
    /\ IF req[t].path \in fs
       THEN Upd(t, [req[t] EXCEPT !.pc = "g_load", !.fmt = "ogg"])
       ELSE Upd(t, [req[t] EXCEPT !.pc = "ret", !.failure = "FileNotFoundError",
                                  !.pret = Raise("FileNotFoundError")])
    /\ UNCHANGED <<provider, lastOp, lastArg, handle, acquired, callsOn,
                   callsDone, fs, ntmp, others>>

\* _load_client: if self._client is None
GoogleCloudSTTProvider_load_client(t) ==
    /\ req[t].pc = "g_load"
    /\ Upd(t, [req[t] EXCEPT !.pc = IF handle[req[t].prov] = NULL
                                    THEN "g_acquire" ELSE "g_run"])
    /\ UNCHANGED <<provider, lastOp, lastArg, handle, acquired, callsOn,
                   callsDone, fs, ntmp, others>>

\* _load_client: from google.cloud import speech; self._client = SpeechClient()
GoogleCloudSTTProvider_load_client_acquire(t, outcome) ==
    /\ req[t].pc = "g_acquire"
    /\ IF outcome = "ok"
       THEN /\ handle' = [handle EXCEPT ![req[t].prov] = "client"]
            /\ acquired' = [acquired EXCEPT ![req[t].prov] = @ + 1]
            /\ Upd(t, [req[t] EXCEPT !.pc = "g_run", !.acq = @ + 1])
       ELSE /\ Upd(t, [req[t] EXCEPT !.pc = "ret", !.acq = @ + 1,
                                     !.failure = outcome,
                                     !.pret = Raise(outcome)])
            /\ UNCHANGED <<handle, acquired>>
    /\ UNCHANGED <<provider, lastOp, lastArg, callsOn, callsDone, fs, ntmp, others>>

\* (mutant) an encoding map without the wav entry
encoding_map_nowav(format) ==
    CASE format = "ogg" -> "OGG_OPUS"
      [] format = "mp3" -> "MP3"
      [] OTHER -> "OGG_OPUS"

\* encoding_map.get(format, OGG_OPUS)
encoding_map(format) ==
    CASE format = "ogg" -> "OGG_OPUS"
      [] format = "mp3" -> "MP3"
      [] format = "wav" -> "LINEAR16"
      [] OTHER -> "OGG_OPUS"

\* transcribe_bytes after the client is there: one recognize request; the top
\* alternatives joined by spaces and stripped
GoogleCloudSTTProvider_transcribe_bytes(t, ok, response) ==
    /\ req[t].pc = "g_run"
    /\ Upd(t, [req[t] EXCEPT !.pc = "ret",
                             !.enc = encoding_map(req[t].fmt),
                             !.sent = @ + 1,
                             !.response = response,
                             !.failure = IF ok THEN "none" ELSE "RecognizeError",
                             !.pret = IF ok THEN Ok(strip(join(<<" ">>, response)))
                                      ELSE Raise("RecognizeError")])
    /\ UNCHANGED <<provider, lastOp, lastArg, handle, acquired, callsOn,
                   callsDone, fs, ntmp, others>>

\* one step of a transcribe_file call inside the engine and its provider
FileStep(t) ==
    \/ Dispatch(t)
    \/ WhisperProvider_load_model(t)
    \/ \E outcome \in AcquireOutcomes : WhisperProvider_load_model_acquire(t, outcome)
    \/ \E raw \in RawTexts : WhisperProvider_transcribe(t, TRUE, raw)
    \/ WhisperProvider_transcribe(t, FALSE, <<>>)
    \/ GoogleCloudSTTProvider_transcribe(t)
    \/ GoogleCloudSTTProvider_load_client(t)
    \/ \E outcome \in AcquireOutcomes : GoogleCloudSTTProvider_load_client_acquire(t, outcome)
    \/ \E response \in Responses : GoogleCloudSTTProvider_transcribe_bytes(t, TRUE, response)
    \/ GoogleCloudSTTProvider_transcribe_bytes(t, FALSE, <<>>)
    \/ EngineReturn(t)

\* one step of any call: transcribe_bytes adds the temporary file's steps
ProviderStep(t) ==
    \/ FileStep(t)
    \/ \E written \in BOOLEAN : WhisperProvider_transcribe_bytes(t, written)
    \/ WhisperProvider_transcribe_bytes_finally(t)

(***************************************************************************)
(* The engine as a library: a caller constructs it, then calls it.         *)
(***************************************************************************)
InitEngine(ctorArgs) ==
    /\ \E arg \in ctorArgs :
         /\ provider = SpeechToTextEngine_init(arg)
         /\ lastArg = arg
    /\ lastOp = "init"
    /\ handle = [p \in Providers |-> NULL]
    /\ acquired = [p \in Providers |-> 0]
    /\ callsOn = [p \in Providers |-> 0]
    /\ callsDone = [p \in Providers |-> 0]
    /\ fs = {ExistingFile}
    /\ ntmp = 0
    /\ req = [t \in Callers |-> IdleReq]

LibTranscribeFile(t, arg) ==
    /\ ncalls < MaxCalls
    /\ ncalls' = ncalls + 1
    /\ transcribe_file(t, arg)
    /\ UNCHANGED <<nsets, botVars, cfgVars>>

LibTranscribeBytes(t, format) ==
    /\ ncalls < MaxCalls
    /\ ncalls' = ncalls + 1
    /\ transcribe_bytes(t, format)
    /\ UNCHANGED <<nsets, botVars, cfgVars>>

\* the caller takes the text or the exception
LibReturn(t) ==
    /\ req[t].pc = "done"
    /\ Upd(t, IdleReq)
    /\ UNCHANGED <<provider, lastOp, lastArg, handle, acquired, callsOn,
                   callsDone, fs, ntmp, others>>

\* set_provider between two calls
LibSetProvider(arg) ==
    /\ \A t \in Threads : req[t].pc = "idle"
    /\ nsets < MaxSets
    /\ nsets' = nsets + 1
    /\ set_provider(arg)
    /\ UNCHANGED <<ncalls, botVars, cfgVars>>

\* a thread of a host program makes its call while others may be inside theirs
ConcTranscribeFile(t, arg) ==
    /\ transcribe_file(t, arg)
    /\ UNCHANGED others

ConcTranscribeBytes(t, format) ==
    /\ transcribe_bytes(t, format)
    /\ UNCHANGED others

\* set_provider from one thread while other threads may be inside a call
ConcSetProvider(arg) ==
    /\ nsets < MaxConcSets
    /\ nsets' = nsets + 1
    /\ set_provider(arg)
    /\ UNCHANGED <<ncalls, botVars, cfgVars>>

(***************************************************************************)
(* TelegramSTTBot: the voice and audio handlers.  The host runs them on    *)
(* one event loop: a handler gives way to another only where it awaits.    *)
(***************************************************************************)
Users == {1, 2}
AllowLists == {{}, {1}}
FileIds == {<<"f1">>, <<"f2">>}
\* audio.file_name: none, with a suffix, without one
FileNames == {<<>>, <<"song", ".", "wav">>, <<"song">>}

\* __init__: self.max_file_size = max_file_size_mb * 1024 * 1024
max_file_size == max_file_size_mb * 1024 * 1024

\* declared sizes: at the ceiling and one byte above it
FileSizes == {max_file_size, max_file_size + 1}

Messages ==
    [kind : {"voice"}, user : Users, file_size : FileSizes, file_id : FileIds,
     file_name : {<<>>}]
    \cup
    [kind : {"audio"}, user : Users, file_size : FileSizes, file_id : FileIds,
     file_name : FileNames]

\* (mutant) _is_user_allowed without the empty-list rule
_is_user_allowed_strict(user_id) == user_id \in allowed_users

\* _is_user_allowed
_is_user_allowed(user_id) ==
    IF allowed_users = {} THEN TRUE ELSE user_id \in allowed_users

\* pathlib's suffix of a name without separators: from the last dot on, unless
\* the dot is the first or the last piece
suffix(name) ==
    LET dots == {i \in 1..Len(name) : name[i] = "."}
        last == IF dots = {} THEN 0 ELSE CHOOSE i \in dots : \A j \in dots : j <= i
    IN IF 1 < last /\ last < Len(name) THEN SubSeq(name, last, Len(name)) ELSE <<>>

\* handle_voice: settings.temp_dir / f"{voice.file_id}.ogg"
voice_file_path(m) == MkPath("temp_dir", m.file_id \o <<".", "ogg">>)

\* handle_audio: the suffix of audio.file_name, ".mp3" without a name
audio_file_path(m) ==
    LET file_ext == IF m.file_name # <<>> THEN suffix(m.file_name)
                    ELSE <<".", "mp3">>
    IN MkPath("temp_dir", m.file_id \o file_ext)

\* the replies a sender sees
Reply(kind, text, detail) == [kind |-> kind, text |-> text, detail |-> detail]

IdleH ==
    [pc |-> "idle", kind |-> "none", user |-> 0, file_size |-> 0,
     file_id |-> <<>>, file_name |-> <<>>, file_path |-> NoPath,
     staged |-> FALSE, text |-> <<>>, exc |-> "none", replies |-> <<>>,
     steps |-> <<>>, escaped |-> "none"]

HUpd(h, r) == hs' = [hs EXCEPT ![h] = r]

\* synchronous code runs to its next await: while one handler is inside the
\* engine no other handler moves
LoopFree == \A h \in Handlers : hs[h].pc \notin {"transcribe", "in_engine"}

\* (mutant) the size check with >= in place of >
HandleMessage_inclusive(h, m) ==
    /\ LoopFree
    /\ hs[h].pc = "idle"
    /\ nmsgs < MaxMsgs
    /\ nmsgs' = nmsgs + 1
    /\ LET r == [IdleH EXCEPT !.kind = m.kind, !.user = m.user,
                              !.file_size = m.file_size, !.file_id = m.file_id,
                              !.file_name = m.file_name]
       IN IF ~_is_user_allowed(m.user)
          THEN HUpd(h, [r EXCEPT !.pc = "reject", !.steps = <<"auth">>])
          ELSE IF m.file_size >= max_file_size
          THEN HUpd(h, [r EXCEPT !.pc = "too_large", !.steps = <<"auth", "size">>])
          ELSE HUpd(h, [r EXCEPT !.pc = "notice", !.steps = <<"auth", "size">>])
    /\ UNCHANGED <<allowed_users, max_file_size_mb, engineVars, libVars, cfgVars>>

\* a message arrives: the authorization and size checks, up to the first reply
HandleMessage(h, m) ==
    /\ LoopFree
    /\ hs[h].pc = "idle"
    /\ nmsgs < MaxMsgs
    /\ nmsgs' = nmsgs + 1
    /\ LET r == [IdleH EXCEPT !.kind = m.kind, !.user = m.user,
                              !.file_size = m.file_size, !.file_id = m.file_id,
                              !.file_name = m.file_name]
       IN IF ~_is_user_allowed(m.user)
          THEN HUpd(h, [r EXCEPT !.pc = "reject", !.steps = <<"auth">>])
          ELSE IF m.file_size > max_file_size
          THEN HUpd(h, [r EXCEPT !.pc = "too_large", !.steps = <<"auth", "size">>])
          ELSE HUpd(h, [r EXCEPT !.pc = "notice", !.steps = <<"auth", "size">>])
    /\ UNCHANGED <<allowed_users, max_file_size_mb, engineVars, libVars, cfgVars>>

\* await update.message.reply_text("Sorry, you are not authorized ..."); return
RejectReply(h, sent) ==
    /\ LoopFree
    /\ hs[h].pc = "reject"
    /\ HUpd(h, [hs[h] EXCEPT
            !.pc = "done",
            !.steps = Append(@, "reject_reply"),
            !.replies = IF sent THEN Append(@, Reply("unauthorized", <<>>, "")) ELSE @,
            !.escaped = IF sent THEN "none" ELSE "NetworkError"])
    /\ UNCHANGED <<allowed_users, max_file_size_mb, nmsgs, engineVars, libVars, cfgVars>>

\* (mutant) the too-large reply without the return after it
TooLargeReply_continuing(h, sent) ==
    /\ LoopFree
    /\ hs[h].pc = "too_large"
    /\ HUpd(h, [hs[h] EXCEPT
            !.pc = IF sent THEN "notice" ELSE "done",
            !.steps = Append(@, "too_large_reply"),
            !.replies = IF sent THEN Append(@, Reply("too_large", <<>>, "")) ELSE @,
            !.escaped = IF sent THEN "none" ELSE "NetworkError"])
    /\ UNCHANGED <<allowed_users, max_file_size_mb, nmsgs, engineVars, libVars, cfgVars>>

\* await update.message.reply_text("File too large ..."); return
TooLargeReply(h, sent) ==
    /\ LoopFree
    /\ hs[h].pc = "too_large"
    /\ HUpd(h, [hs[h] EXCEPT
            !.pc = "done",
            !.steps = Append(@, "too_large_reply"),
            !.replies = IF sent THEN Append(@, Reply("too_large", <<>>, "")) ELSE @,
            !.escaped = IF sent THEN "none" ELSE "NetworkError"])
    /\ UNCHANGED <<allowed_users, max_file_size_mb, nmsgs, engineVars, libVars, cfgVars>>

\* processing_msg = await update.message.reply_text("Processing ..."), then
\* inside try: context.bot.get_file is called
ProcessingNotice(h, sent) ==
    /\ LoopFree
    /\ hs[h].pc = "notice"
    /\ HUpd(h, [hs[h] EXCEPT
            !.pc = IF sent THEN "get_file" ELSE "done",
            !.steps = Append(@, "notice"),
            !.replies = IF sent THEN Append(@, Reply("processing", <<>>, "")) ELSE @,
            !.escaped = IF sent THEN "none" ELSE "NetworkError"])
    /\ UNCHANGED <<allowed_users, max_file_size_mb, nmsgs, engineVars, libVars, cfgVars>>

\* file = await context.bot.get_file(file_id); file_path is computed and
\* file.download_to_drive(file_path) is called
GetFile(h, found) ==
    /\ LoopFree
    /\ hs[h].pc = "get_file"
    /\ HUpd(h, [hs[h] EXCEPT
            !.pc = IF found THEN "download" ELSE "fail_reply",
            !.steps = Append(@, "get_file"),
            !.file_path = IF ~found THEN @
                          ELSE IF hs[h].kind = "voice" THEN voice_file_path(hs[h])
                          ELSE audio_file_path(hs[h]),
            !.exc = IF found THEN "none" ELSE "NetworkError"])
    /\ UNCHANGED <<allowed_users, max_file_size_mb, nmsgs, engineVars, libVars, cfgVars>>

\* await file.download_to_drive(file_path): the payload is written, or the
\* transfer fails before anything is written, or the write fails part-way and
\* leaves what it wrote
DownloadOutcomes == {"written", "NetworkError", "OSError"}
\* (mutant) a download that completes while another handler is in its
\* synchronous stretch, as handlers running on threads would
Download_unsynchronized(h, outcome) ==
    /\ hs[h].pc = "download"
    /\ fs' = IF outcome = "NetworkError" THEN fs ELSE fs \cup {hs[h].file_path}
    /\ HUpd(h, [hs[h] EXCEPT
            !.pc = IF outcome = "written" THEN "transcribe" ELSE "fail_reply",
            !.steps = Append(@, "download"),
            !.staged = (outcome = "written"),
            !.exc = IF outcome = "written" THEN "none" ELSE outcome])
    /\ UNCHANGED <<allowed_users, max_file_size_mb, nmsgs, provider, lastOp,
                   lastArg, handle, acquired, callsOn, callsDone, ntmp, req,
                   libVars, cfgVars>>

Download(h, outcome) ==
    /\ LoopFree
    /\ hs[h].pc = "download"
    /\ fs' = IF outcome = "NetworkError" THEN fs ELSE fs \cup {hs[h].file_path}
    /\ HUpd(h, [hs[h] EXCEPT
            !.pc = IF outcome = "written" THEN "transcribe" ELSE "fail_reply",
            !.steps = Append(@, "download"),
            !.staged = (outcome = "written"),
            !.exc = IF outcome = "written" THEN "none" ELSE outcome])
    /\ UNCHANGED <<allowed_users, max_file_size_mb, nmsgs, provider, lastOp,
                   lastArg, handle, acquired, callsOn, callsDone, ntmp, req,
                   libVars, cfgVars>>

\* text = self.engine.transcribe_file(file_path): the call enters the engine
Transcribe(h) ==
    /\ hs[h].pc = "transcribe"
    /\ transcribe_file(h, [type |-> "Path", path |-> hs[h].file_path])
    /\ HUpd(h, [hs[h] EXCEPT !.pc = "in_engine", !.steps = Append(@, "transcribe")])
    /\ UNCHANGED <<allowed_users, max_file_size_mb, nmsgs, libVars, cfgVars>>

\* the engine returned: file_path.unlink(missing_ok=True), then edit_text is
\* called with the text or the no-speech notice.  The engine raised: control is
\* in the except clause, which calls edit_text with the error
AfterTranscribe(h) ==
    /\ hs[h].pc = "in_engine"
    /\ req[h].pc = "done"
    /\ Upd(h, IdleReq)
    /\ IF req[h].result.err = "none"
       THEN /\ fs' = fs \ {hs[h].file_path}
            /\ HUpd(h, [hs[h] EXCEPT !.pc = "result_reply",
                                     !.text = req[h].result.text,
                                     !.steps = Append(@, "unlink")])
       ELSE /\ fs' = fs
            /\ HUpd(h, [hs[h] EXCEPT !.pc = "fail_reply",
                                     !.exc = req[h].result.err])
    /\ UNCHANGED <<allowed_users, max_file_size_mb, nmsgs, provider, lastOp,
                   lastArg, handle, acquired, callsOn, callsDone, ntmp,
                   libVars, cfgVars>>

\* (mutant) the result reply without the test for an empty text
ResultReply_unconditional(h, sent) ==
    /\ LoopFree
    /\ hs[h].pc = "result_reply"
    /\ HUpd(h, [hs[h] EXCEPT
            !.pc = IF sent THEN "done" ELSE "fail_reply",
            !.steps = Append(@, "result_reply"),
            !.replies = IF ~sent THEN @
                        ELSE Append(@, Reply("transcription", hs[h].text, "")),
            !.exc = IF sent THEN "none" ELSE "NetworkError"])
    /\ UNCHANGED <<allowed_users, max_file_size_mb, nmsgs, engineVars, libVars, cfgVars>>

\* await processing_msg.edit_text(...): the transcription, or the no-speech
\* notice for an empty text; a failure here is caught like any other
ResultReply(h, sent) ==
    /\ LoopFree
    /\ hs[h].pc = "result_reply"
    /\ HUpd(h, [hs[h] EXCEPT
            !.pc = IF sent THEN "done" ELSE "fail_reply",
            !.steps = Append(@, "result_reply"),
            !.replies = IF ~sent THEN @
                        ELSE IF hs[h].text # <<>>
                        THEN Append(@, Reply("transcription", hs[h].text, ""))
                        ELSE Append(@, Reply("no_speech", <<>>, "")),
            !.exc = IF sent THEN "none" ELSE "NetworkError"])
    /\ UNCHANGED <<allowed_users, max_file_size_mb, nmsgs, engineVars, libVars, cfgVars>>

\* except Exception as e: await processing_msg.edit_text(f"Error ...: {str(e)}")
FailureReply(h, sent) ==
    /\ LoopFree
    /\ hs[h].pc = "fail_reply"
    /\ HUpd(h, [hs[h] EXCEPT
            !.pc = "done",
            !.steps = Append(@, "failure_reply"),
            !.replies = IF sent THEN Append(@, Reply("error", <<>>, hs[h].exc)) ELSE @,
            !.escaped = IF sent THEN "none" ELSE "NetworkError"])
    /\ UNCHANGED <<allowed_users, max_file_size_mb, nmsgs, engineVars, libVars, cfgVars>>

\* the handler has returned, or its exception has reached the host
HandlerReturns(h) ==
    /\ LoopFree
    /\ hs[h].pc = "done"
    /\ HUpd(h, IdleH)
    /\ UNCHANGED <<allowed_users, max_file_size_mb, nmsgs, engineVars, libVars, cfgVars>>

(***************************************************************************)
(* TelegramSTTBot: the text commands                                       *)
(***************************************************************************)
Commands == {"start", "help", "info"}

\* what a command answers an authorized sender: the welcome, the help with
\* the size limit, the information with the provider's class name and the
\* size limit
CommandContent(c) ==
    CASE c = "start" -> Reply("welcome", <<>>, "")
      [] c = "help" -> Reply("help", <<>>, ToString(max_file_size_mb))
      [] c = "info" -> Reply("info", <<>>, ProviderClass(provider) \o " "
                                           \o ToString(max_file_size_mb))

\* (mutant) a command that does not ask _is_user_allowed
CommandMessage_ungated(h, c, user_id) ==
    /\ LoopFree
    /\ hs[h].pc = "idle"
    /\ nmsgs < MaxMsgs
    /\ nmsgs' = nmsgs + 1
    /\ HUpd(h, [IdleH EXCEPT !.kind = c, !.user = user_id, !.pc = "command_reply",
                             !.steps = <<"auth">>])
    /\ UNCHANGED <<allowed_users, max_file_size_mb, engineVars, libVars, cfgVars>>

\* start_command / help_command / info_command up to the first reply
CommandMessage(h, c, user_id) ==
    /\ LoopFree
    /\ hs[h].pc = "idle"
    /\ nmsgs < MaxMsgs
    /\ nmsgs' = nmsgs + 1
    /\ LET r == [IdleH EXCEPT !.kind = c, !.user = user_id, !.steps = <<"auth">>]
       IN IF ~_is_user_allowed(user_id)
          THEN HUpd(h, [r EXCEPT !.pc = "reject"])
          ELSE HUpd(h, [r EXCEPT !.pc = "command_reply"])
    /\ UNCHANGED <<allowed_users, max_file_size_mb, engineVars, libVars, cfgVars>>

\* await update.message.reply_text(welcome_message / help_message / info_message)
CommandReply(h, sent) ==
    /\ LoopFree
    /\ hs[h].pc = "command_reply"
    /\ HUpd(h, [hs[h] EXCEPT
            !.pc = "done",
            !.steps = Append(@, "command_reply"),
            !.replies = IF sent THEN Append(@, CommandContent(hs[h].kind)) ELSE @,
            !.escaped = IF sent THEN "none" ELSE "NetworkError"])
    /\ UNCHANGED <<allowed_users, max_file_size_mb, nmsgs, engineVars, libVars, cfgVars>>

(***************************************************************************)
(* Settings and load_config                                                *)
(***************************************************************************)
\* bool(x) of an optional string: None and "" are false
Truthy(x) == x # NULL /\ x # ""

\* (mutant) a comparison that keeps the case of the value
lower_keepcase(x) == x

\* str.lower() on the values that occur
lower(x) ==
    CASE x = "YES" -> "yes"
      [] x = "True" -> "true"
      [] x = "YAML" -> "yaml"
      [] x = "JSON" -> "json"
      [] OTHER -> x

\* a configuration dictionary: the keys it has and their values
ConfigKeys == {"telegram_bot", "telegram_bot_token", "stt_provider",
               "whisper_model", "whisper_device"}
EmptyDict ==
    [has |-> {}, telegram_bot |-> FALSE, telegram_bot_token |-> NULL,
     stt_provider |-> NULL, whisper_model |-> NULL, whisper_device |-> NULL]

\* d.get(key, default)
get(d, key, default) == IF key \in d.has THEN d[key] ELSE default

\* (mutant) an update that keeps what the dictionary already has
update_keep(d, e) ==
    [has |-> d.has \cup e.has,
     telegram_bot |-> IF "telegram_bot" \in d.has THEN d.telegram_bot ELSE e.telegram_bot,
     telegram_bot_token |-> IF "telegram_bot_token" \in d.has THEN d.telegram_bot_token
                            ELSE e.telegram_bot_token,
     stt_provider |-> IF "stt_provider" \in d.has THEN d.stt_provider ELSE e.stt_provider,
     whisper_model |-> IF "whisper_model" \in d.has THEN d.whisper_model ELSE e.whisper_model,
     whisper_device |-> IF "whisper_device" \in d.has THEN d.whisper_device
                        ELSE e.whisper_device]

\* d.update(e)
update(d, e) ==
    [has |-> d.has \cup e.has,
     telegram_bot |-> IF "telegram_bot" \in e.has THEN e.telegram_bot ELSE d.telegram_bot,
     telegram_bot_token |-> IF "telegram_bot_token" \in e.has THEN e.telegram_bot_token
                            ELSE d.telegram_bot_token,
     stt_provider |-> IF "stt_provider" \in e.has THEN e.stt_provider ELSE d.stt_provider,
     whisper_model |-> IF "whisper_model" \in e.has THEN e.whisper_model ELSE d.whisper_model,
     whisper_device |-> IF "whisper_device" \in e.has THEN e.whisper_device
                        ELSE d.whisper_device]

\* the environments, config files and command lines considered
Environments ==
    [STT_TELEGRAM_BOT : {NULL, "", "true", "YES", "1", "false", "on"},
     TELEGRAM_BOT_TOKEN : {NULL, "", "tok"},
     STT_PROVIDER : {NULL, "google_cloud", "bogus"},
     STT_WHISPER_MODEL : {NULL, "large"}]
NoEnvironment ==
    [STT_TELEGRAM_BOT |-> NULL, TELEGRAM_BOT_TOKEN |-> NULL, STT_PROVIDER |-> NULL,
     STT_WHISPER_MODEL |-> NULL]

FileDict(has, tb) ==
    [EmptyDict EXCEPT !.has = has, !.telegram_bot = tb,
                      !.telegram_bot_token = IF "telegram_bot_token" \in has
                                             THEN "filetok" ELSE NULL,
                      !.whisper_model = IF "whisper_model" \in has
                                        THEN "medium" ELSE NULL]
FileDicts ==
    {FileDict(x[1], x[2]) :
        x \in {y \in (SUBSET {"telegram_bot", "telegram_bot_token", "whisper_model"})
                      \X BOOLEAN : "telegram_bot" \in y[1] \/ ~y[2]}}
ConfigNames == {<<"config", ".", "json">>, <<"config", ".", "YAML">>,
                <<"config", ".", "yml">>, <<"config", ".", "txt">>, <<"config">>}
NoConfigFile == [given |-> FALSE, exists |-> FALSE, name |-> <<>>, content |-> EmptyDict]
ConfigFiles ==
    {NoConfigFile}
    \cup [given : {TRUE}, exists : {FALSE}, name : ConfigNames, content : {EmptyDict}]
    \cup [given : {TRUE}, exists : {TRUE}, name : ConfigNames, content : FileDicts]

CommandLines ==
    [provider : {NULL, "whisper", "google_cloud"}, whisper_model : {NULL, "small"},
     device : {NULL, "cuda"}]
NoCommandLine == [provider |-> NULL, whisper_model |-> NULL, device |-> NULL]

\* the dataclass defaults
DefaultSettings ==
    [telegram_bot |-> FALSE,
     stt |-> [provider |-> "whisper", whisper_model |-> "base", whisper_device |-> "cpu"],
     telegram |-> [enabled |-> FALSE, bot_token |-> NULL]]

Built(s) == [err |-> "none", obj |-> s]
Failed(e) == [err |-> e, obj |-> DefaultSettings]

\* (mutant) __post_init__ without the token validation
Settings_post_init_novalidate(s) ==
    IF s.telegram_bot THEN Built([s EXCEPT !.telegram.enabled = TRUE]) ELSE Built(s)

\* (mutant) __post_init__ that validates the token but leaves telegram.enabled
Settings_post_init_noenable(s) ==
    IF s.telegram_bot /\ ~Truthy(s.telegram.bot_token)
    THEN Failed("ValueError")
    ELSE Built(s)

\* Settings.__post_init__: bot mode enables telegram and requires a token
Settings_post_init(s) ==
    IF s.telegram_bot
    THEN IF ~Truthy(s.telegram.bot_token)
         THEN Failed("ValueError")
         ELSE Built([s EXCEPT !.telegram.enabled = TRUE])
    ELSE Built(s)

LoadedDict(d) == [err |-> "none", dict |-> d]

\* (mutant) _load_config_file comparing the suffix as it is written
_load_config_file_as_written(f) ==
    LET sfx == suffix(f.name) IN
    IF sfx = <<".", "json">> THEN LoadedDict(f.content)
    ELSE IF sfx \in {<<".", "yaml">>, <<".", "yml">>} THEN LoadedDict(f.content)
    ELSE [err |-> "ValueError", dict |-> EmptyDict]

\* _load_config_file: by the lower-cased suffix
_load_config_file(f) ==
    LET sfx == [i \in DOMAIN suffix(f.name) |-> lower(suffix(f.name)[i])] IN
    IF sfx = <<".", "json">> THEN LoadedDict(f.content)
    ELSE IF sfx \in {<<".", "yaml">>, <<".", "yml">>} THEN LoadedDict(f.content)
    ELSE [err |-> "ValueError", dict |-> EmptyDict]

\* _load_from_env: a variable counts when it is set and not empty
_load_from_env(e) ==
    [has |-> {k \in ConfigKeys :
                \/ k = "telegram_bot" /\ Truthy(e.STT_TELEGRAM_BOT)
                \/ k = "telegram_bot_token" /\ Truthy(e.TELEGRAM_BOT_TOKEN)
                \/ k = "stt_provider" /\ Truthy(e.STT_PROVIDER)
                \/ k = "whisper_model" /\ Truthy(e.STT_WHISPER_MODEL)},
     telegram_bot |-> Truthy(e.STT_TELEGRAM_BOT)
                      /\ lower(e.STT_TELEGRAM_BOT) \in {"true", "1", "yes"},
     telegram_bot_token |-> IF Truthy(e.TELEGRAM_BOT_TOKEN) THEN e.TELEGRAM_BOT_TOKEN
                            ELSE NULL,
     stt_provider |-> IF Truthy(e.STT_PROVIDER) THEN e.STT_PROVIDER ELSE NULL,
     whisper_model |-> IF Truthy(e.STT_WHISPER_MODEL) THEN e.STT_WHISPER_MODEL ELSE NULL,
     whisper_device |-> NULL]

\* (mutant) load_config reading the file it was given without asking whether
\* it exists
load_config_unasked(f, e) ==
    LET read == _load_config_file(f)
        loaded == IF ~f.given THEN LoadedDict(EmptyDict)
                  ELSE IF read.err = "none" /\ ~f.exists
                  THEN [err |-> "FileNotFoundError", dict |-> EmptyDict]
                  ELSE read
        config_dict == update(loaded.dict, _load_from_env(e))
    IN IF loaded.err # "none" THEN Failed(loaded.err)
       ELSE Settings_post_init(
              [telegram_bot |-> get(config_dict, "telegram_bot", FALSE),
               stt |-> [provider |-> get(config_dict, "stt_provider", "whisper"),
                        whisper_model |-> get(config_dict, "whisper_model", "base"),
                        whisper_device |-> get(config_dict, "whisper_device", "cpu")],
               telegram |-> [enabled |-> get(config_dict, "telegram_bot", FALSE),
                             bot_token |-> get(config_dict, "telegram_bot_token", NULL)]])

\* load_config: the file's dictionary, updated from the environment, built
\* into a Settings object
load_config(f, e) ==
    LET loaded == IF f.given /\ f.exists THEN _load_config_file(f)
                  ELSE LoadedDict(EmptyDict)
        config_dict == update(loaded.dict, _load_from_env(e))
    IN IF loaded.err # "none" THEN Failed(loaded.err)
       ELSE Settings_post_init(
              [telegram_bot |-> get(config_dict, "telegram_bot", FALSE),
               stt |-> [provider |-> get(config_dict, "stt_provider", "whisper"),
                        whisper_model |-> get(config_dict, "whisper_model", "base"),
                        whisper_device |-> get(config_dict, "whisper_device", "cpu")],
               telegram |-> [enabled |-> get(config_dict, "telegram_bot", FALSE),
                             bot_token |-> get(config_dict, "telegram_bot_token", NULL)]])

NoBot == [made |-> FALSE, bot_token |-> NULL, running |-> FALSE]
NoProvider == [class |-> NULL, model |-> NULL, device |-> NULL]
NotGiven == [made |-> FALSE, telegram_bot |-> FALSE, bot_token |-> NULL]

\* Settings(telegram_bot=..., telegram=TelegramConfig(bot_token=...)) called
\* directly
ConstructSettings(telegram_bot, bot_token) ==
    /\ cpc = "start"
    /\ LET made == Settings_post_init(
                     [DefaultSettings EXCEPT !.telegram_bot = telegram_bot,
                                             !.telegram.bot_token = bot_token])
       IN /\ settings' = made.obj
          /\ cerr' = made.err
          /\ cpc' = IF made.err = "none" THEN "constructed" ELSE "raised"
    /\ given' = [made |-> TRUE, telegram_bot |-> telegram_bot, bot_token |-> bot_token]
    /\ UNCHANGED <<env, cfile, args, built, tbot, engineVars, libVars, botVars>>

(***************************************************************************)
(* bot_command: the entry point of "televoica bot"                         *)
(***************************************************************************)
\* settings = load_config(config_file=config_file)
bot_command_load ==
    /\ cpc = "start"
    /\ \E e \in Environments, f \in ConfigFiles, a \in CommandLines :
         /\ env' = e
         /\ cfile' = f
         /\ args' = a
         /\ LET made == load_config(f, e)
            IN /\ settings' = made.obj
               /\ cerr' = made.err
               /\ cpc' = IF made.err = "none" THEN "loaded" ELSE "raised"
    /\ UNCHANGED <<given, built, tbot, engineVars, libVars, botVars>>

\* (mutant) bot_command that passes over the command line's options
bot_command_override_skipped ==
    /\ cpc = "loaded"
    /\ settings' = settings
    /\ cpc' = "overridden"
    /\ UNCHANGED <<env, cfile, args, cerr, given, built, tbot, engineVars, libVars, botVars>>

\* the command line's provider, model and device override what was loaded
bot_command_override ==
    /\ cpc = "loaded"
    /\ settings' =
         [settings EXCEPT
            !.stt.provider = IF Truthy(args.provider) THEN args.provider ELSE @,
            !.stt.whisper_model = IF Truthy(args.whisper_model) THEN args.whisper_model ELSE @,
            !.stt.whisper_device = IF Truthy(args.device) THEN args.device ELSE @]
    /\ cpc' = "overridden"
    /\ UNCHANGED <<env, cfile, args, cerr, given, built, tbot, engineVars, libVars, botVars>>

\* settings.telegram_bot = True
bot_command_enable ==
    /\ cpc = "overridden"
    /\ settings' = [settings EXCEPT !.telegram_bot = TRUE]
    /\ cpc' = "enabled"
    /\ UNCHANGED <<env, cfile, args, cerr, given, built, tbot, engineVars, libVars, botVars>>

\* the provider named by settings.stt.provider, built from the settings, or
\* sys.exit(1) for an unknown name; then engine = SpeechToTextEngine(provider)
bot_command_provider ==
    /\ cpc = "enabled"
    /\ IF settings.stt.provider = "whisper"
       THEN /\ built' = [class |-> "WhisperProvider",
                         model |-> settings.stt.whisper_model,
                         device |-> settings.stt.whisper_device]
            /\ cpc' = "engine"
            /\ cerr' = cerr
       ELSE IF settings.stt.provider = "google_cloud"
       THEN /\ built' = [class |-> "GoogleCloudSTTProvider", model |-> NULL,
                         device |-> NULL]
            /\ cpc' = "engine"
            /\ cerr' = cerr
       ELSE /\ cpc' = "exited"
            /\ cerr' = "SystemExit"
            /\ built' = built
    /\ UNCHANGED <<env, cfile, args, settings, given, tbot, engineVars, libVars,
                   botVars>>

\* bot = TelegramSTTBot(settings=settings, engine=engine)
bot_command_bot ==
    /\ cpc = "engine"
    /\ tbot' = [made |-> TRUE, bot_token |-> settings.telegram.bot_token,
                running |-> FALSE]
    /\ cpc' = "bot"
    /\ UNCHANGED <<env, cfile, args, settings, cerr, given, built, engineVars,
                   libVars, botVars>>

\* bot.run(): the application is built from self.bot_token and polls; an
\* exception out of run is logged and the process exits with 1
bot_command_run ==
    /\ cpc = "bot"
    /\ IF Truthy(tbot.bot_token)
       THEN /\ tbot' = [tbot EXCEPT !.running = TRUE]
            /\ cpc' = "polling"
            /\ cerr' = cerr
       ELSE /\ cpc' = "exited"
            /\ cerr' = "SystemExit"
            /\ tbot' = tbot
    /\ UNCHANGED <<env, cfile, args, settings, given, built, engineVars, libVars,
                   botVars>>

(***************************************************************************)
(* Specifications                                                          *)
(***************************************************************************)
InitLib == ncalls = 0 /\ nsets = 0

InitBotIdle ==
    /\ max_file_size_mb = 20
    /\ hs = [h \in Handlers |-> IdleH]
    /\ nmsgs = 0

InitCfg ==
    /\ env = NoEnvironment
    /\ cfile = NoConfigFile
    /\ args = NoCommandLine
    /\ cpc = "start"
    /\ settings = DefaultSettings
    /\ cerr = "none"
    /\ given = NotGiven
    /\ built = NoProvider
    /\ tbot = NoBot

\* the caller of the library, one call at a time
Caller == {"t1"}

Init ==
    /\ InitEngine(CallerProviders \cup {NULL})
    /\ InitLib
    /\ allowed_users = {}
    /\ InitBotIdle
    /\ InitCfg

Next ==
    \/ \E t \in Caller, arg \in PathArgs : LibTranscribeFile(t, arg)
    \/ \E t \in Caller, format \in Formats : LibTranscribeBytes(t, format)
    \/ \E t \in Caller : ProviderStep(t)
    \/ \E t \in Caller : LibReturn(t)
    \/ \E arg \in Providers : LibSetProvider(arg)

Spec == Init /\ [][Next]_vars

\* the same, with set_provider(None) among the calls
NextAnyArg ==
    \/ Next
    \/ LibSetProvider(NULL)

SpecAnyArg == Init /\ [][NextAnyArg]_vars

\* the engine shared by the threads of a host program, each making one call:
\* the calls overlap, and set_provider comes at any moment
NextConc ==
    \/ \E t \in Threads : ConcTranscribeFile(t, [type |-> "Path", path |-> ExistingFile])
    \/ \E t \in Threads : ConcTranscribeBytes(t, "ogg")
    \/ \E t \in Threads : ProviderStep(t)
    \/ \E arg \in Providers : ConcSetProvider(arg)

SpecConc == Init /\ [][NextConc]_vars

\* the bot: the engine bot_command built, and messages arriving one after
\* the other
Serving == {"h1"}

InitBot ==
    /\ InitEngine(CallerProviders)
    /\ InitLib
    /\ allowed_users \in AllowLists
    /\ InitBotIdle
    /\ InitCfg

NextBot ==
    \/ \E h \in Serving, m \in Messages : HandleMessage(h, m)
    \/ \E h \in Serving, sent \in BOOLEAN : RejectReply(h, sent)
    \/ \E h \in Serving, sent \in BOOLEAN : TooLargeReply(h, sent)
    \/ \E h \in Serving, sent \in BOOLEAN : ProcessingNotice(h, sent)
    \/ \E h \in Serving, found \in BOOLEAN : GetFile(h, found)
    \/ \E h \in Serving, outcome \in DownloadOutcomes : Download(h, outcome)
    \/ \E h \in Serving : Transcribe(h)
    \/ \E h \in Serving : FileStep(h)
    \/ \E h \in Serving : AfterTranscribe(h)
    \/ \E h \in Serving, sent \in BOOLEAN : ResultReply(h, sent)
    \/ \E h \in Serving, sent \in BOOLEAN : FailureReply(h, sent)
    \/ \E h \in Serving : HandlerReturns(h)

SpecBot == InitBot /\ [][NextBot]_vars

\* the bot with the host dispatching handlers concurrently: two invocations
\* are in flight and take turns where they await
Overlapping == {"h1", "h2"}
OverlapMessages == {m \in Messages : m.file_name = <<>>}

NextOverlap ==
    \/ \E h \in Overlapping, m \in OverlapMessages : HandleMessage(h, m)
    \/ \E h \in Overlapping, sent \in BOOLEAN : RejectReply(h, sent)
    \/ \E h \in Overlapping, sent \in BOOLEAN : TooLargeReply(h, sent)
    \/ \E h \in Overlapping, sent \in BOOLEAN : ProcessingNotice(h, sent)
    \/ \E h \in Overlapping, found \in BOOLEAN : GetFile(h, found)
    \/ \E h \in Overlapping, outcome \in DownloadOutcomes : Download(h, outcome)
    \/ \E h \in Overlapping : Transcribe(h)
    \/ \E h \in Overlapping : FileStep(h)
    \/ \E h \in Overlapping : AfterTranscribe(h)
    \/ \E h \in Overlapping, sent \in BOOLEAN : ResultReply(h, sent)
    \/ \E h \in Overlapping, sent \in BOOLEAN : FailureReply(h, sent)

SpecOverlap == InitBot /\ [][NextOverlap]_vars

\* the bot answering text commands
NextCommands ==
    \/ \E h \in Serving, c \in Commands, user_id \in Users : CommandMessage(h, c, user_id)
    \/ \E h \in Serving, sent \in BOOLEAN : RejectReply(h, sent)
    \/ \E h \in Serving, sent \in BOOLEAN : CommandReply(h, sent)
    \/ \E h \in Serving : HandlerReturns(h)

SpecCommands == InitBot /\ [][NextCommands]_vars

\* configuration: Settings built directly, or through the bot entry point
NextConfig ==
    \/ \E telegram_bot \in BOOLEAN, bot_token \in {NULL, "", "tok"} :
         ConstructSettings(telegram_bot, bot_token)
    \/ bot_command_load
    \/ bot_command_override
    \/ bot_command_enable
    \/ bot_command_provider
    \/ bot_command_bot
    \/ bot_command_run

InitConfig ==
    /\ InitEngine({NULL})
    /\ InitLib
    /\ allowed_users = {}
    /\ InitBotIdle
    /\ InitCfg

SpecConfig == InitConfig /\ [][NextConfig]_vars

(***************************************************************************)
(* Properties                                                              *)
(***************************************************************************)

\* C1: transcribe_file on a path that does not exist fails with
\* FileNotFoundError before any provider method runs (no provider entered, no
\* acquisition, no request sent); on an existing path, given as str or Path,
\* what it returns or raises is what the provider's transcribe returned or raised.
C1_NotFoundBeforeProvider ==
    \A t \in Caller :
        req[t].op = "file" =>
            /\ req[t].path \notin fs =>
                 /\ req[t].pc = "done"
                 /\ req[t].result = Raise("FileNotFoundError")
                 /\ req[t].prov = NULL
                 /\ req[t].acq = 0
                 /\ req[t].sent = 0
                 /\ req[t].pret = Pending
            /\ req[t].path \in fs =>
                 /\ req[t].pc # "idle"
                 /\ req[t].pc = "done" =>
                      /\ req[t].prov \in Providers
                      /\ req[t].pret # Pending
                      /\ req[t].result = req[t].pret

\* C1 witness: after a call on an existing file was served, a call on the
\* missing path has failed with FileNotFoundError
C1_Witness ==
    /\ \E p \in Providers : callsDone[p] >= 1
    /\ req["t1"].op = "file"
    /\ req["t1"].path = MissingFile
    /\ req["t1"].pc = "done"
    /\ req["t1"].result.err = "FileNotFoundError"

\* C2 (as claimed): when a handler finishes, the file it staged under the
\* transient directory no longer exists, whatever the exit path
C2_StagedFileRemoved ==
    \A h \in Handlers :
        hs[h].pc = "done" /\ hs[h].staged => hs[h].file_path \notin fs

\* C3 (as claimed): no exception raised at any step of a handler leaves the
\* handler
C3_NothingEscapes ==
    \A h \in Handlers : hs[h].escaped = "none"

\* C4 (as claimed): WhisperProvider.transcribe_bytes creates exactly one
\* temporary file, named with the suffix "." + format, and the file is gone
\* when the call has returned or raised
C4_TempFileRemoved ==
    \A t \in Caller :
        /\ req[t].op = "bytes"
        /\ req[t].prov # NULL
        /\ ProviderClass(req[t].prov) = "WhisperProvider"
        /\ req[t].pc = "done"
        => /\ Cardinality(req[t].made) = 1
           /\ \A f \in req[t].made :
                /\ suffix(f.name) = <<".", req[t].fmt>>
                /\ f \notin fs

\* C5 (as claimed): whatever the constructor and set_provider were given, the
\* engine's provider is a provider, never None
C5_AlwaysAProvider == provider \in Providers

\* C5 (amended): the engine's provider is a provider unless the last
\* set_provider was given None; the constructor given None builds its own
C5_ProviderUnlessSetNone ==
    /\ provider \in Providers \cup {NULL}
    /\ provider = NULL <=> (lastOp = "set" /\ lastArg = NULL)
    /\ lastOp = "init" /\ lastArg = NULL => provider = DefaultProvider

\* C5 witness: after set_provider(None), a set_provider with a provider and a
\* call served by it
C5_Witness ==
    /\ nsets = 2
    /\ provider \in Providers
    /\ req["t1"].pc = "done"
    /\ req["t1"].prov = provider
    /\ req["t1"].result.err = "none"

\* C6: the engine's provider is the argument of the last set_provider, and a
\* call dispatched after set_provider(P2) is served by P2
C6_ServedByLastSet ==
    /\ lastOp = "set" => provider = lastArg
    /\ \A t \in Caller :
         req[t].prov # NULL => req[t].prov = req[t].expect

\* C6 witness: a call served by the provider set last, after another provider
\* has served a call
C6_Witness ==
    /\ lastOp = "set"
    /\ \E q \in Providers \ {provider} : callsDone[q] >= 1
    /\ req["t1"].pc = "done"
    /\ req["t1"].prov = lastArg
    /\ req["t1"].result.err = "none"

\* C7 (as claimed): the handle is empty until the provider's first call, is
\* there once a call on the provider has returned, is acquired at most once,
\* and stays
C7_AcquiredOnFirstCall ==
    \A p \in Providers :
        /\ callsOn[p] = 0 => handle[p] = NULL
        /\ callsDone[p] >= 1 => handle[p] # NULL
        /\ acquired[p] <= 1
        /\ acquired[p] >= 1 => handle[p] # NULL

\* C7 (amended): the handle is empty until the provider's first call, is
\* acquired by the first call whose acquisition succeeds, is there whenever
\* the backend transcribes and after every call that got that far, is
\* acquired at most once, and stays
C7_AcquiredOnceAndKept ==
    \A p \in Providers :
        /\ callsOn[p] = 0 => handle[p] = NULL /\ acquired[p] = 0
        /\ acquired[p] <= 1
        /\ handle[p] # NULL <=> acquired[p] = 1
        /\ \A t \in Caller :
             req[t].prov = p =>
                /\ req[t].pc \in {"w_run", "g_run"} => handle[p] # NULL
                /\ req[t].pret.err \in {"none", "TranscribeError", "RecognizeError"}
                     => handle[p] # NULL
                /\ req[t].acq <= 1

\* C7 witness: a provider whose first call failed to acquire, whose second
\* acquired, and whose third ran on the handle it found
C7_Witness ==
    \E p \in Providers :
        /\ callsDone[p] = 3
        /\ acquired[p] = 1
        /\ handle[p] # NULL
        /\ req["t1"].pc = "done"
        /\ req["t1"].acq = 0
        /\ req["t1"].result.err = "none"

\* C8: Settings(telegram_bot=True) with no token or an empty one raises
\* ValueError, no bot or provider having been made; with a token it is built
\* with that token; and load_config never returns bot mode without a token
C8_BotModeRequiresToken ==
    /\ given.made /\ given.telegram_bot /\ given.bot_token \in {NULL, ""} =>
         /\ cpc = "raised"
         /\ cerr = "ValueError"
         /\ ~tbot.made
         /\ built = NoProvider
    /\ given.made /\ given.telegram_bot /\ given.bot_token \notin {NULL, ""} =>
         /\ cpc = "constructed"
         /\ cerr = "none"
         /\ settings.telegram_bot
         /\ settings.telegram.bot_token = given.bot_token
    /\ given.made /\ ~given.telegram_bot => cpc = "constructed"
    /\ cpc = "loaded" /\ settings.telegram_bot =>
         settings.telegram.bot_token \notin {NULL, ""}

\* C8 witness: the construction with bot mode and an empty token has raised
C8_Witness ==
    /\ given.made
    /\ given.telegram_bot
    /\ given.bot_token = ""
    /\ cpc = "raised"
    /\ cerr = "ValueError"

\* C9 (as claimed): along the bot entry point, settings with bot mode on have a
\* token, and the bot is never made or run without one
C9_BotEntryHasToken ==
    cpc \in {"loaded", "overridden", "enabled", "engine", "bot", "polling", "exited"} =>
        /\ settings.telegram_bot => settings.telegram.bot_token \notin {NULL, ""}
        /\ tbot.made => tbot.bot_token \notin {NULL, ""}

\* C10: with an empty allow-list every sender is authorized; with a non-empty
\* one exactly the listed senders are; any other sender gets the rejection
\* reply and nothing else: no size check, no notice, no download, no staged
\* file, no engine call
C10_AllowList ==
    \A h \in Handlers :
        hs[h].pc # "idle" =>
            LET authorized == allowed_users = {} \/ hs[h].user \in allowed_users
                rejection == Reply("unauthorized", <<>>, "")
            IN /\ ~authorized =>
                    /\ hs[h].pc \in {"reject", "done"}
                    /\ hs[h].steps \in {<<"auth">>, <<"auth", "reject_reply">>}
                    /\ hs[h].replies \in {<<>>, <<rejection>>}
                    /\ hs[h].pc = "done" /\ hs[h].escaped = "none"
                         => hs[h].replies = <<rejection>>
                    /\ hs[h].file_path = NoPath
                    /\ ~hs[h].staged
                    /\ req[h] = IdleReq
               /\ authorized =>
                    /\ hs[h].pc # "reject"
                    /\ Len(hs[h].steps) >= 2 /\ hs[h].steps[2] = "size"
                    /\ \A i \in 1..Len(hs[h].replies) :
                         hs[h].replies[i] # rejection

\* C10 witness: with a non-empty allow-list, after a first message, a sender
\* not on the list has got the rejection reply
C10_Witness ==
    /\ allowed_users # {}
    /\ nmsgs = 2
    /\ hs["h1"].user \notin allowed_users
    /\ hs["h1"].pc = "done"
    /\ hs["h1"].replies = <<Reply("unauthorized", <<>>, "")>>

\* C11: for an authorized sender, a voice or audio message declaring more
\* than max_file_size_mb * 1,048,576 bytes gets the too-large reply and nothing
\* else: no notice, no file lookup, no download, no engine call; a message
\* declaring that many bytes or fewer is never rejected as too large
C11_SizeCeiling ==
    \A h \in Handlers :
        /\ hs[h].kind \in {"voice", "audio"}
        /\ allowed_users = {} \/ hs[h].user \in allowed_users
        => LET ceiling == max_file_size_mb * 1048576
               too_large == Reply("too_large", <<>>, "")
           IN /\ hs[h].file_size > ceiling =>
                   /\ hs[h].pc \in {"too_large", "done"}
                   /\ hs[h].steps \in {<<"auth", "size">>,
                                       <<"auth", "size", "too_large_reply">>}
                   /\ hs[h].replies \in {<<>>, <<too_large>>}
                   /\ hs[h].pc = "done" /\ hs[h].escaped = "none"
                        => hs[h].replies = <<too_large>>
                   /\ hs[h].file_path = NoPath
                   /\ ~hs[h].staged
                   /\ req[h] = IdleReq
              /\ hs[h].file_size <= ceiling =>
                   /\ hs[h].pc # "too_large"
                   /\ \A i \in 1..Len(hs[h].replies) : hs[h].replies[i] # too_large
                   /\ \A i \in 1..Len(hs[h].steps) : hs[h].steps[i] # "too_large_reply"
                   /\ hs[h].pc = "notice" \/ (Len(hs[h].steps) >= 3 /\ hs[h].steps[3] = "notice")

\* C11 witness: after a message at the ceiling was staged and transcribed, a
\* message one byte above it has got the too-large reply
C11_Witness ==
    /\ \E p \in Providers : callsDone[p] >= 1
    /\ allowed_users = {} \/ hs["h1"].user \in allowed_users
    /\ hs["h1"].file_size = max_file_size_mb * 1048576 + 1
    /\ hs["h1"].pc = "done"
    /\ hs["h1"].replies = <<Reply("too_large", <<>>, "")>>

\* C12 (as claimed): what load_config returns holds, for every setting, the
\* environment variable's value when the variable is present, otherwise the
\* file's value when the file sets it, otherwise the default
C12_EnvWinsWhenPresent ==
    cpc = "loaded" =>
        LET fileSets(k) == cfile.given /\ cfile.exists /\ k \in cfile.content.has
            present(x) == x # NULL
            words == {"true", "1", "yes", "True", "YES"}
        IN /\ settings.stt.whisper_model =
                IF present(env.STT_WHISPER_MODEL) THEN env.STT_WHISPER_MODEL
                ELSE IF fileSets("whisper_model") THEN cfile.content.whisper_model
                ELSE "base"
           /\ settings.stt.provider =
                IF present(env.STT_PROVIDER) THEN env.STT_PROVIDER
                ELSE IF fileSets("stt_provider") THEN cfile.content.stt_provider
                ELSE "whisper"
           /\ settings.telegram.bot_token =
                IF present(env.TELEGRAM_BOT_TOKEN) THEN env.TELEGRAM_BOT_TOKEN
                ELSE IF fileSets("telegram_bot_token") THEN cfile.content.telegram_bot_token
                ELSE NULL
           /\ settings.telegram_bot =
                IF present(env.STT_TELEGRAM_BOT) THEN env.STT_TELEGRAM_BOT \in words
                ELSE IF fileSets("telegram_bot") THEN cfile.content.telegram_bot
                ELSE FALSE

\* C12 (amended): the same, a variable counting as present when it is set to
\* a non-empty value; one set to the empty string is passed over
C12_EnvWinsWhenNonEmpty ==
    cpc = "loaded" =>
        LET fileSets(k) == cfile.given /\ cfile.exists /\ k \in cfile.content.has
            present(x) == x # NULL /\ x # ""
            words == {"true", "1", "yes", "True", "YES"}
        IN /\ settings.stt.whisper_model =
                IF present(env.STT_WHISPER_MODEL) THEN env.STT_WHISPER_MODEL
                ELSE IF fileSets("whisper_model") THEN cfile.content.whisper_model
                ELSE "base"
           /\ settings.stt.provider =
                IF present(env.STT_PROVIDER) THEN env.STT_PROVIDER
                ELSE IF fileSets("stt_provider") THEN cfile.content.stt_provider
                ELSE "whisper"
           /\ settings.stt.whisper_device = "cpu"
           /\ settings.telegram.bot_token =
                IF present(env.TELEGRAM_BOT_TOKEN) THEN env.TELEGRAM_BOT_TOKEN
                ELSE IF fileSets("telegram_bot_token") THEN cfile.content.telegram_bot_token
                ELSE NULL
           /\ settings.telegram_bot =
                IF present(env.STT_TELEGRAM_BOT) THEN env.STT_TELEGRAM_BOT \in words
                ELSE IF fileSets("telegram_bot") THEN cfile.content.telegram_bot
                ELSE FALSE

\* C12 witness: default base, the file says medium, the environment says
\* large, and large is what was loaded
C12_Witness ==
    /\ cpc = "loaded"
    /\ cfile.given /\ cfile.exists
    /\ "whisper_model" \in cfile.content.has
    /\ cfile.content.whisper_model = "medium"
    /\ env.STT_WHISPER_MODEL = "large"
    /\ settings.stt.whisper_model = "large"

\* C13 (as claimed): every GoogleCloudSTTProvider.transcribe_bytes call has
\* sent exactly one recognize request, its encoding OGG_OPUS for ogg, MP3 for
\* mp3, LINEAR16 for wav and OGG_OPUS for any other hint
C13_OneRequestPerCall ==
    \A t \in Caller :
        /\ req[t].op = "bytes"
        /\ req[t].prov # NULL
        /\ ProviderClass(req[t].prov) = "GoogleCloudSTTProvider"
        /\ req[t].pc = "done"
        => /\ req[t].sent = 1
           /\ req[t].enc = IF req[t].fmt = "mp3" THEN "MP3"
                           ELSE IF req[t].fmt = "wav" THEN "LINEAR16"
                           ELSE "OGG_OPUS"

\* C13 (amended): a call sends at most one recognize request, none when the
\* client could not be acquired and exactly one otherwise, and the request's
\* encoding is OGG_OPUS for ogg, MP3 for mp3, LINEAR16 for wav and OGG_OPUS
\* for any other hint; a Whisper call sends none
C13_EncodingOfTheRequest ==
    \A t \in Caller :
        req[t].prov # NULL =>
            IF ProviderClass(req[t].prov) = "GoogleCloudSTTProvider"
            THEN /\ req[t].sent <= 1
                 /\ req[t].sent = 1 =>
                      req[t].enc = IF req[t].fmt = "mp3" THEN "MP3"
                                   ELSE IF req[t].fmt = "wav" THEN "LINEAR16"
                                   ELSE "OGG_OPUS"
                 /\ req[t].sent = 0 => req[t].enc = ""
                 /\ req[t].pc = "done" =>
                      IF req[t].result.err \in AcquireFailures \cup {"FileNotFoundError"}
                      THEN req[t].sent = 0 /\ handle[req[t].prov] = NULL
                      ELSE req[t].sent = 1
            ELSE req[t].sent = 0

\* C13 witness: a call with the hint wav, after one with an unknown hint,
\* has sent one LINEAR16 request
C13_Witness ==
    /\ callsDone["G1"] = 2
    /\ req["t1"].op = "bytes"
    /\ req["t1"].prov = "G1"
    /\ req["t1"].fmt = "wav"
    /\ req["t1"].pc = "done"
    /\ req["t1"].sent = 1
    /\ req["t1"].enc = "LINEAR16"
    /\ req["t1"].result.err = "none"

\* C14: with calls of two threads overlapping and set_provider coming at any
\* moment, the engine's provider is always one whole provider (the last one
\* given), every request is served by the provider that was active when it
\* dispatched, runs that provider's code only, and returns from it: the calls
\* dispatched to a provider are the ones it has finished or is still serving
C14_SetProviderInterruptsNothing ==
    /\ provider \in Providers
    /\ lastOp = "set" => provider = lastArg
    /\ \A t \in Threads :
         req[t].prov # NULL =>
            /\ req[t].prov = req[t].expect
            /\ req[t].pc \in {"w_stage", "w_load", "w_acquire", "w_run", "w_finally"}
                 => ProviderClass(req[t].prov) = "WhisperProvider"
            /\ req[t].pc \in {"g_open", "g_load", "g_acquire", "g_run"}
                 => ProviderClass(req[t].prov) = "GoogleCloudSTTProvider"
            /\ req[t].pc \in {"w_run", "g_run"} => handle[req[t].prov] # NULL
    /\ \A p \in Providers :
         /\ callsOn[p] = callsDone[p]
                + Cardinality({t \in Threads : req[t].prov = p /\ req[t].pc # "done"})
         /\ acquired[p] >= 1 => callsOn[p] >= 1
         /\ handle[p] # NULL =>
              handle[p] = IF ProviderClass(p) = "WhisperProvider" THEN "model" ELSE "client"

\* C14 witness: a request still running on the provider that was active when
\* it dispatched, while a request dispatched after set_provider has been
\* served by the new one
C14_Witness ==
    /\ lastOp = "set"
    /\ req["t1"].pc \in {"w_run", "g_run"}
    /\ req["t1"].prov # provider
    /\ req["t2"].pc = "done"
    /\ req["t2"].prov = provider
    /\ req["t2"].result.err = "none"

\* C15 (as claimed): a handler whose transcription succeeded ends with the
\* transcription as its last reply when the text is not empty, and with the
\* no-speech notice when it is
C15_FinalReplyIsTheResult ==
    \A h \in Handlers :
        /\ hs[h].pc = "done"
        /\ \E i \in 1..Len(hs[h].steps) : hs[h].steps[i] = "unlink"
        => /\ hs[h].replies # <<>>
           /\ hs[h].replies[Len(hs[h].replies)] =
                IF hs[h].text # <<>> THEN Reply("transcription", hs[h].text, "")
                ELSE Reply("no_speech", <<>>, "")

\* C15 (amended): after a successful transcription at most one result reply
\* is sent: the transcription, with the text the engine returned, when that is
\* not empty and the no-speech notice when it is, never both and never an
\* empty transcription; it is the last reply when it was delivered, and when
\* sending it raised the failure reply takes its place
C15_ResultReplyWhenDelivered ==
    \A h \in Handlers :
        LET n == Len(hs[h].replies)
            results == {i \in 1..n : hs[h].replies[i].kind \in {"transcription", "no_speech"}}
            succeeded == \E i \in 1..Len(hs[h].steps) : hs[h].steps[i] = "unlink"
        IN /\ results # {} => succeeded
           /\ Cardinality(results) <= 1
           /\ \A i \in results :
                /\ i = n
                /\ hs[h].replies[i] =
                     IF hs[h].text # <<>> THEN Reply("transcription", hs[h].text, "")
                     ELSE Reply("no_speech", <<>>, "")
           /\ succeeded /\ hs[h].pc = "done" =>
                IF hs[h].exc = "none"
                THEN results = {n}
                ELSE /\ results = {}
                     /\ hs[h].escaped = "none" =>
                          hs[h].replies[n] = Reply("error", <<>>, hs[h].exc)

\* C15 witness: after an empty transcription the handler has ended with the
\* no-speech notice as its last reply
C15_Witness ==
    /\ hs["h1"].pc = "done"
    /\ \E i \in 1..Len(hs["h1"].steps) : hs["h1"].steps[i] = "unlink"
    /\ hs["h1"].text = <<>>
    /\ hs["h1"].replies =
         <<Reply("processing", <<>>, ""), Reply("no_speech", <<>>, "")>>

\* C16 (as claimed): the failure reply is the same text whatever exception
\* was caught: it carries nothing of the exception
C16_GenericFailureReply ==
    \A h \in Handlers :
        \A i \in 1..Len(hs[h].replies) :
            hs[h].replies[i].kind = "error" =>
                hs[h].replies[i] = Reply("error", <<>>, "")

\* C17: a sender the allow-list does not authorize gets from /start, /help
\* and /info the rejection reply and nothing else, never the welcome, the
\* help or the information; an authorized sender is never rejected and gets
\* the command's own content
C17_CommandsGated ==
    \A h \in Handlers :
        hs[h].kind \in {"start", "help", "info"} =>
            LET authorized == allowed_users = {} \/ hs[h].user \in allowed_users
                rejection == Reply("unauthorized", <<>>, "")
            IN /\ ~authorized =>
                    /\ hs[h].pc \in {"reject", "done"}
                    /\ hs[h].replies \in {<<>>, <<rejection>>}
                    /\ hs[h].pc = "done" /\ hs[h].escaped = "none"
                         => hs[h].replies = <<rejection>>
               /\ authorized =>
                    /\ hs[h].pc \in {"command_reply", "done"}
                    /\ Len(hs[h].replies) <= 1
                    /\ \A i \in 1..Len(hs[h].replies) :
                         hs[h].replies[i].kind =
                            (IF hs[h].kind = "start" THEN "welcome" ELSE hs[h].kind)
                    /\ hs[h].pc = "done" /\ hs[h].escaped = "none"
                         => Len(hs[h].replies) = 1

\* C17 witness: with a non-empty allow-list, /info from a sender not on it
\* has been answered with the rejection
C17_Witness ==
    /\ allowed_users # {}
    /\ hs["h1"].kind = "info"
    /\ hs["h1"].user \notin allowed_users
    /\ hs["h1"].pc = "done"
    /\ hs["h1"].replies = <<Reply("unauthorized", <<>>, "")>>

\* C18: a failure inside the active provider (staging, acquiring the backend
\* resource, the backend's transcription) is what the caller of
\* transcribe_file / transcribe_bytes gets, as an exception and with no text;
\* a text is returned only by a call in which nothing failed
C18_FailureReachesCaller ==
    \A t \in Caller :
        req[t].pc = "done" /\ req[t].prov # NULL =>
            /\ req[t].failure # "none" =>
                 /\ req[t].result.err = req[t].failure
                 /\ req[t].result.text = <<>>
            /\ req[t].acq >= 1 /\ handle[req[t].prov] = NULL =>
                 req[t].result.err \in AcquireFailures
            /\ req[t].result.err = "none" =>
                 /\ req[t].failure = "none"
                 /\ handle[req[t].prov] # NULL

\* C18 witness: a call whose acquisition failed and, after it, a call whose
\* transcription failed have both ended in the caller's hands as errors
C18_Witness ==
    /\ \E p \in Providers : callsDone[p] >= 2 /\ acquired[p] = 1
    /\ req["t1"].pc = "done"
    /\ req["t1"].failure \in {"TranscribeError", "RecognizeError"}
    /\ req["t1"].result.err = req["t1"].failure

\* C19: a text a provider returns is normalized.  WhisperProvider's is the
\* backend's text without its leading and trailing whitespace, and nothing
\* else changed; GoogleCloudSTTProvider's is the top alternatives of the
\* response's results, in order, with one space between them, without leading
\* and trailing whitespace, the empty text for a response without results
C19_TextNormalized ==
    \A t \in Caller :
        req[t].prov # NULL /\ req[t].pret.err = "none" =>
            LET text == req[t].pret.text
                segs == req[t].response
                joined == IF Len(segs) = 0 THEN <<>>
                          ELSE IF Len(segs) = 1 THEN segs[1]
                          ELSE segs[1] \o <<" ">> \o segs[2]
                source == IF ProviderClass(req[t].prov) = "WhisperProvider"
                          THEN req[t].raw ELSE joined
                n == Len(source)
            IN /\ Len(segs) <= 2
               /\ text # <<>> => text[1] # " " /\ text[Len(text)] # " "
               /\ \E i \in 0..n : \E j \in 0..(n - i) :
                    /\ \A k \in 1..i : source[k] = " "
                    /\ \A k \in (n - j + 1)..n : source[k] = " "
                    /\ text = SubSeq(source, i + 1, n - j)
               /\ ProviderClass(req[t].prov) = "GoogleCloudSTTProvider" /\ segs = <<>>
                    => text = <<>>

\* C19 witness: a Google response of two segments with whitespace around
\* them has been returned as the one word in it
C19_Witness ==
    /\ req["t1"].prov = "G1"
    /\ req["t1"].pc = "done"
    /\ req["t1"].response = << <<" ", "a">>, <<" ">> >>
    /\ req["t1"].result = Ok(<<"a">>)

\* C20: load_config given an existing config file whose extension is none of
\* .json, .yaml, .yml, in any case, raises ValueError and returns no Settings;
\* with one of these extensions the file is accepted, and load_config then
\* fails only when bot mode is asked for without a token
C20_UnsupportedFormat ==
    cpc # "start" /\ ~given.made /\ cfile.given /\ cfile.exists =>
        LET sfx == suffix(cfile.name)
            supported == /\ Len(sfx) = 2
                         /\ sfx[1] = "."
                         /\ sfx[2] \in {"json", "JSON", "yaml", "YAML", "yml", "YML"}
            has(k) == k \in cfile.content.has
            bot == IF env.STT_TELEGRAM_BOT \notin {NULL, ""}
                   THEN env.STT_TELEGRAM_BOT \in {"true", "1", "yes", "True", "YES"}
                   ELSE has("telegram_bot") /\ cfile.content.telegram_bot
            token == env.TELEGRAM_BOT_TOKEN \notin {NULL, ""}
                     \/ (has("telegram_bot_token")
                         /\ cfile.content.telegram_bot_token \notin {NULL, ""})
        IN IF supported
           THEN cpc = "raised" <=> (bot /\ ~token)
           ELSE /\ cpc = "raised"
                /\ cerr = "ValueError"
                /\ settings = DefaultSettings
                /\ built = NoProvider
                /\ ~tbot.made

\* C20 witness: a config file named config.txt, with a token in it, has made
\* load_config raise
C20_Witness ==
    /\ ~given.made
    /\ cfile.given /\ cfile.exists
    /\ cfile.name = <<"config", ".", "txt">>
    /\ "telegram_bot_token" \in cfile.content.has
    /\ cpc = "raised"
    /\ cerr = "ValueError"

\* C21: a Settings value constructed with telegram_bot = True and a token has
\* telegram.enabled = True, and every Settings that load_config returns has
\* telegram.enabled equal to telegram_bot
C21_BotModeEnablesTelegram ==
    /\ given.made /\ given.telegram_bot /\ cpc = "constructed" =>
         /\ settings.telegram_bot
         /\ settings.telegram.enabled
    /\ cpc = "loaded" => settings.telegram.enabled = settings.telegram_bot

\* C21 witness: Settings(telegram_bot=True, telegram=TelegramConfig(bot_token=
\* "tok")) has been constructed, with telegram enabled
C21_Witness ==
    /\ given.made
    /\ given.telegram_bot
    /\ given.bot_token = "tok"
    /\ cpc = "constructed"
    /\ settings.telegram.enabled

\* C22: _load_from_env sets telegram_bot to true exactly when STT_TELEGRAM_BOT
\* is, whatever its case, one of true / 1 / yes, sets it to false for any
\* other non-empty value, and leaves the key out when the variable is unset or
\* empty, so that the file's value or the default applies
C22_BotModeFromEnv ==
    cpc \in {"loaded", "raised"} /\ ~given.made =>
        LET v == env.STT_TELEGRAM_BOT
            config == _load_from_env(env)
            fromFile == /\ cfile.given /\ cfile.exists
                        /\ "telegram_bot" \in cfile.content.has
                        /\ cfile.content.telegram_bot
        IN /\ v \in {"true", "YES", "1"} =>
                "telegram_bot" \in config.has /\ config.telegram_bot
           /\ v \in {"false", "on"} =>
                "telegram_bot" \in config.has /\ ~config.telegram_bot
           /\ v \in {NULL, ""} => "telegram_bot" \notin config.has
           /\ cpc = "loaded" =>
                settings.telegram_bot = IF v \in {"true", "YES", "1"} THEN TRUE
                                        ELSE IF v \in {"false", "on"} THEN FALSE
                                        ELSE fromFile

\* C22 witness: STT_TELEGRAM_BOT=YES has turned bot mode on over a config
\* file that turns it off
C22_Witness ==
    /\ cpc = "loaded"
    /\ env.STT_TELEGRAM_BOT = "YES"
    /\ cfile.given /\ cfile.exists
    /\ "telegram_bot" \in cfile.content.has
    /\ ~cfile.content.telegram_bot
    /\ settings.telegram_bot

C24_CommandLineOverrides ==
    cpc \in {"overridden", "enabled", "engine", "bot", "polling", "exited"} =>
        LET resolved == load_config(cfile, env).obj.stt
            known == settings.stt.provider \in {"whisper", "google_cloud"}
        IN /\ settings.stt.provider =
                IF args.provider # NULL THEN args.provider ELSE resolved.provider
           /\ settings.stt.whisper_model =
                IF args.whisper_model # NULL THEN args.whisper_model
                ELSE resolved.whisper_model
           /\ settings.stt.whisper_device =
                IF args.device # NULL THEN args.device ELSE resolved.whisper_device
           /\ cpc \in {"engine", "bot", "polling"} =>
                /\ known
                /\ settings.stt.provider = "whisper" =>
                     built = [class |-> "WhisperProvider",
                              model |-> settings.stt.whisper_model,
                              device |-> settings.stt.whisper_device]
                /\ settings.stt.provider = "google_cloud" =>
                     built.class = "GoogleCloudSTTProvider"
           /\ cpc = "exited" /\ ~known =>
                /\ cerr = "SystemExit"
                /\ built = NoProvider
                /\ ~tbot.made
           /\ ~known => cpc \in {"overridden", "enabled", "exited"}

\* C24 witness: --provider whisper --whisper-model small given against
\* STT_PROVIDER=google_cloud and STT_WHISPER_MODEL=large, and the engine's
\* provider is a WhisperProvider with the model small
C24_Witness ==
    /\ cpc = "engine"
    /\ env.STT_PROVIDER = "google_cloud"
    /\ env.STT_WHISPER_MODEL = "large"
    /\ args.provider = "whisper"
    /\ args.whisper_model = "small"
    /\ args.device = NULL
    /\ built = [class |-> "WhisperProvider", model |-> "small", device |-> "cpu"]

\* C25 (as claimed): for one provider the backend resource is acquired at most
\* once, whatever the interleaving of the calls, two first calls that both
\* start while the handle is empty included
C25_AcquiredAtMostOnce ==
    \A p \in Providers : acquired[p] <= 1

\* C26: a file transcribed through transcribe_file with the Google provider
\* is sent as OGG_OPUS whatever its extension, GoogleCloudSTTProvider.transcribe
\* passing no format on; a request goes out as MP3 or LINEAR16 only from
\* transcribe_bytes given the hint mp3 or wav
C26_FilesSentAsOggOpus ==
    \A t \in Caller :
        req[t].prov # NULL /\ ProviderClass(req[t].prov) = "GoogleCloudSTTProvider" =>
            /\ req[t].op = "file" /\ req[t].sent > 0 => req[t].enc = "OGG_OPUS"
            /\ req[t].op = "file" /\ req[t].pc = "done" /\ req[t].result.err = "none"
                 => req[t].sent = 1 /\ req[t].enc = "OGG_OPUS"
            /\ req[t].enc = "MP3" => req[t].op = "bytes" /\ req[t].fmt = "mp3"
            /\ req[t].enc = "LINEAR16" => req[t].op = "bytes" /\ req[t].fmt = "wav"

\* C26 witness: the file rec.wav has been transcribed by the Google provider
\* through transcribe_file, its one request sent as OGG_OPUS
C26_Witness ==
    /\ req["t1"].op = "file"
    /\ req["t1"].prov = "G1"
    /\ suffix(req["t1"].path.name) = <<".", "wav">>
    /\ req["t1"].pc = "done"
    /\ req["t1"].result.err = "none"
    /\ req["t1"].sent = 1
    /\ req["t1"].enc = "OGG_OPUS"

\* C27: when acquiring the backend resource fails during a call, the call
\* fails with that exception, nothing having been transcribed, and the
\* provider's handle stays empty; a call that finds the handle empty always
\* attempts the acquisition, so the next call attempts it again, and when it
\* succeeds the call transcribes as any other
C27_FailedAcquisitionRetried ==
    /\ \A p \in Providers : handle[p] = NULL <=> acquired[p] = 0
    /\ \A t \in Caller :
         LET r == req[t] IN
         r.prov # NULL =>
            /\ r.failure \in AcquireFailures =>
                 /\ r.acq = 1
                 /\ handle[r.prov] = NULL
                 /\ r.sent = 0 /\ r.raw = <<>> /\ r.response = <<>>
                 /\ r.pret = Raise(r.failure)
                 /\ r.pc = "done" => r.result = Raise(r.failure)
            /\ r.pc \in {"w_run", "g_run"} => handle[r.prov] # NULL
            /\ r.pc \in {"w_run", "g_run"} /\ acquired[r.prov] = 1 /\ callsDone[r.prov] = 0
                 => r.acq = 1
            /\ r.acq = 0 /\ r.pc \in {"w_run", "g_run"} => acquired[r.prov] >= 1
            /\ r.acq = 1 /\ r.pc = "done" /\ r.failure = "none" =>
                 /\ handle[r.prov] # NULL
                 /\ r.result =
                      IF ProviderClass(r.prov) = "WhisperProvider"
                      THEN Ok(strip(r.raw))
                      ELSE Ok(strip(join(<<" ">>, r.response)))

\* C27 witness: the Google provider's second call has acquired the client,
\* which the first call failed to acquire, and has returned a text
C27_Witness ==
    /\ callsDone["G1"] = 2
    /\ acquired["G1"] = 1
    /\ req["t1"].prov = "G1"
    /\ req["t1"].acq = 1
    /\ req["t1"].pc = "done"
    /\ req["t1"].result = Ok(<<"a", " ", "b">>)

\* C28 (as claimed): the staged paths of the messages in flight do not
\* collide: while a handler has its file staged and its transcription
\* unfinished, no other message in flight has the same staged path
C28_StagedPathsDistinct ==
    \A a \in Handlers : \A b \in Handlers \ {a} :
        /\ hs[a].staged
        /\ hs[a].pc \in {"transcribe", "in_engine"}
        /\ hs[b].pc \notin {"idle", "done"}
        /\ hs[b].file_path # NoPath
        => hs[b].file_path # hs[a].file_path

\* C28 (amended): from the end of its download to the end of its
\* transcription a handler does not await, so no other handler takes a step:
\* the staged file is there, nobody else writes or removes it, and the engine
\* never misses it, although another message in flight may have the same path
C28_StagedFileUntouched ==
    /\ [](\A h \in Handlers : hs[h].exc # "FileNotFoundError")
    /\ [][\A h \in Handlers :
            hs[h].staged /\ hs[h].pc \in {"transcribe", "in_engine"} =>
                /\ hs[h].file_path \in fs
                /\ \A o \in Handlers \ {h} : hs'[o] = hs[o]
                /\ hs'[h].pc \in {"transcribe", "in_engine"} =>
                     hs[h].file_path \in fs']_vars

\* C28 witness: one handler is inside the engine with its staged file while
\* another message with the same file identifier, hence the same path, waits
\* for its download
C28_Witness ==
    /\ hs["h1"].staged
    /\ hs["h1"].pc = "in_engine"
    /\ hs["h1"].file_path \in fs
    /\ hs["h2"].pc = "download"
    /\ hs["h2"].file_id = hs["h1"].file_id
    /\ hs["h2"].file_path = hs["h1"].file_path

\* C29: no step of transcribe_file or transcribe_bytes, succeeding or failing,
\* changes the engine's provider reference; set_provider changes that
\* reference and nothing else: no handle is filled, no resource acquired, no
\* call dispatched or finished, no request and no file touched
C29_FrameOfCallsAndSetProvider ==
    [][/\ nsets' = nsets => provider' = provider
       /\ nsets' # nsets =>
            /\ provider' = lastArg'
            /\ handle' = handle
            /\ acquired' = acquired
            /\ callsOn' = callsOn
            /\ callsDone' = callsDone
            /\ req' = req
            /\ fs' = fs
            /\ ntmp' = ntmp]_vars

\* C29 witness: set_provider has made G1 the provider while a call was being
\* served by W1; that call has failed, the provider is still G1, and G1 has
\* acquired nothing and served nothing
C29_Witness ==
    /\ nsets = 1
    /\ lastOp = "set"
    /\ provider = "G1"
    /\ req["t1"].prov = "W1"
    /\ req["t1"].pc = "done"
    /\ req["t1"].result.err = "TranscribeError"
    /\ handle["G1"] = NULL
    /\ acquired["G1"] = 0
    /\ callsOn["G1"] = 0

\* C30: load_config given a path that does not exist does what load_config
\* without a file does: the missing file raises nothing, whatever its
\* extension, and the settings come from the environment and the defaults
\* alone; the only error left is the one the environment causes by asking for
\* bot mode without a token
C30_MissingFileAsNoFile ==
    cpc \in {"loaded", "raised"} /\ ~given.made /\ cfile.given /\ ~cfile.exists =>
        LET nofile == load_config(NoConfigFile, env)
            botmode == env.STT_TELEGRAM_BOT \in {"true", "YES", "1"}
            token == IF env.TELEGRAM_BOT_TOKEN \in {NULL, ""} THEN NULL
                     ELSE env.TELEGRAM_BOT_TOKEN
        IN /\ settings = nofile.obj
           /\ cerr = nofile.err
           /\ cpc = "raised" <=> (botmode /\ token = NULL)
           /\ cpc = "raised" => cerr = "ValueError"
           /\ cpc = "loaded" =>
                /\ cerr = "none"
                /\ settings.telegram_bot = botmode
                /\ settings.telegram.bot_token = token
                /\ settings.stt.provider =
                     IF env.STT_PROVIDER = NULL THEN "whisper" ELSE env.STT_PROVIDER
                /\ settings.stt.whisper_model =
                     IF env.STT_WHISPER_MODEL = NULL THEN "base"
                     ELSE env.STT_WHISPER_MODEL
                /\ settings.stt.whisper_device = "cpu"

\* C30 witness: --config config.txt names no file, and load_config has
\* returned settings with the model the environment names
C30_Witness ==
    /\ ~given.made
    /\ cfile.given /\ ~cfile.exists
    /\ cfile.name = <<"config", ".", "txt">>
    /\ env.STT_WHISPER_MODEL = "large"
    /\ cpc = "loaded"
    /\ cerr = "none"
    /\ settings.stt.whisper_model = "large"

====
